---- MODULE Spec2Model ----
(***************************************************************************)
(* A state-machine model of src/app.py: the Flask handlers                 *)
(* /start-recording, /stop-recording (with process_audio and the pipeline  *)
(* upload_to_s3 -> transcribe_audio -> correct_and_translate),             *)
(* /translate-to-language and /text-to-speech, running on the worker       *)
(* threads of the threaded Flask server over the four module globals.      *)
(*                                                                         *)
(* Python values: an Optional[str] is a record [none, s]; a string is a    *)
(* sequence of tokens, the token " " being whitespace, so that strip() and *)
(* truthiness are computed and not assumed.  External services answer      *)
(* nondeterministically.  A handler step is one shared-memory access or    *)
(* one external call together with the local code that follows it.         *)
(***************************************************************************)
EXTENDS Integers, Sequences, FiniteSets, TLC

\* ------------------------------------------------------------------ bounds
MaxSessions == 2     \* /stop-recording requests that reach uuid4()
MaxPolls == 1        \* non-terminal answers the transcription service gives per job
MaxFrames == 1       \* chunks the microphone delivers while is_recording stays true
MaxRecordings == 1   \* /start-recording requests, not counting those of a second operator

\* ------------------------------------------------------- worker threads
\* the threaded server runs each request on a worker of its own; which worker
\* serves a request is immaterial, so the free worker listed first takes it
Workers == <<"w1", "w2", "w3">>
Threads == {Workers[i] : i \in 1..Len(Workers)}

\* ------------------------------------------------------- Python values
None == [none |-> TRUE, s |-> <<>>]
Str(x) == [none |-> FALSE, s |-> x]

\* Python truthiness of an Optional[str]: None and "" are falsy
Truthy(v) == (~v.none) /\ Len(v.s) > 0

RECURSIVE LStrip(_)
LStrip(x) == IF x = <<>> THEN <<>>
             ELSE IF Head(x) = " " THEN LStrip(Tail(x)) ELSE x

RECURSIVE RStrip(_)
RStrip(x) == IF x = <<>> THEN <<>>
             ELSE IF x[Len(x)] = " " THEN RStrip(SubSeq(x, 1, Len(x) - 1)) ELSE x

\* str.strip()
Strip(x) == RStrip(LStrip(x))

\* f"Error: {str(e)}"
ErrorStr(e) == Str(<<"Error:", e>>)

\* what the external services can answer
JobStatuses == {"IN_PROGRESS", "COMPLETED", "FAILED"}
TerminalStatuses == {"COMPLETED", "FAILED"}
Transcripts == {<<>>, <<" ">>, <<"neer">>}
ModelTexts == {<<" ">>, <<"water", " ">>, <<"soil">>}
Translations == {<<>>, <<"paani">>}
TargetLanguages == {"", "hi"}
SpeechTexts == {<<>>, <<"hello">>}

NoSession == 0

\* ------------------------------------------------------------------ state
VARIABLES
  current_session_id,    \* global, NoSession for None
  current_english_text,  \* global, Optional[str]
  is_recording,          \* global flag
  audio_frames,          \* global list of captured chunks
  wavFile,               \* frames in uploads/recorded_audio.wav
  nextId,                \* the next value uuid.uuid4() returns
  nRec,                  \* /start-recording requests received so far
  operators,             \* how many requests other than /start-recording are served at the same time
  captures,              \* how many /start-recording calls are blocked in their loop at the same time
  pc,                    \* per worker: position in its handler
  req,                   \* per worker: the route it is serving
  session_id,            \* per worker: process_audio's local session_id
  source_text,           \* per worker: process_audio's local source_text
  english_text,          \* per worker: process_audio's local english_text
  rec,                   \* per worker: which recording its start_recording call makes
  nread,                 \* per worker: chunks its start_recording loop has read
  log,                   \* per worker: calls made for the current request
  resp,                  \* per worker: the JSON result its handler returns
  lastSuccess,           \* english_text of the latest successful /stop-recording result
  stopped,               \* per worker: chunks appended since a stop cleared the flag under its loop, -1 if none did
  before                 \* per worker: the session record when its /stop-recording request began

globals == <<current_session_id, current_english_text, is_recording, audio_frames>>
locals == <<session_id, source_text, english_text, rec, nread>>
env == <<wavFile, nextId, nRec, operators, captures>>
vars == <<current_session_id, current_english_text, is_recording, audio_frames,
          wavFile, nextId, nRec, operators, captures, pc, req, session_id, source_text,
          english_text, rec, nread, log, resp, lastSuccess, stopped, before>>

\* one logged call: the operation, its outcome, and a text argument or result
Ev(op, res, arg) == [op |-> op, res |-> res, arg |-> arg]

NoResp == [status |-> "none", message |-> "", source_text |-> None,
           english_text |-> None, translated_text |-> None, audio_url |-> ""]
ErrorResp(m) == [NoResp EXCEPT !.status = "error", !.message = m]

\* the module globals as lines 64-68 set them, and no request in flight
Started ==
  /\ current_session_id = NoSession
  /\ current_english_text = None
  /\ is_recording = FALSE
  /\ audio_frames = <<>>
  /\ wavFile = <<>>
  /\ nextId = 1
  /\ nRec = 0
  /\ pc = [t \in Threads |-> "idle"]
  /\ req = [t \in Threads |-> "none"]
  /\ session_id = [t \in Threads |-> NoSession]
  /\ source_text = [t \in Threads |-> None]
  /\ english_text = [t \in Threads |-> None]
  /\ rec = [t \in Threads |-> 0]
  /\ nread = [t \in Threads |-> 0]
  /\ log = [t \in Threads |-> <<>>]
  /\ resp = [t \in Threads |-> NoResp]
  /\ lastSuccess = None
  /\ stopped = [t \in Threads |-> -1]
  /\ before = [t \in Threads |-> <<NoSession, None>>]

\* one operator: one /start-recording call and one other request at a time
Init == Started /\ operators = 1 /\ captures = 1

\* one operator who sends no /start-recording request
InitServe == Started /\ operators = 1 /\ captures = 0

\* two operators record at the same time
InitStarts == Started /\ operators = 1 /\ captures = 2

\* two operators send /stop-recording requests at the same time
InitStops == Started /\ operators = 2 /\ captures = 0

\* the handler has built its result r and is about to return jsonify(r);
\* the locals of process_audio and of the capture loop are dead
Respond(t, r) ==
  /\ pc' = [pc EXCEPT ![t] = "ret"]
  /\ resp' = [resp EXCEPT ![t] = r]
  /\ session_id' = [session_id EXCEPT ![t] = NoSession]
  /\ source_text' = [source_text EXCEPT ![t] = None]
  /\ english_text' = [english_text EXCEPT ![t] = None]
  /\ rec' = [rec EXCEPT ![t] = 0]
  /\ nread' = [nread EXCEPT ![t] = 0]

Goto(t, p) ==
  /\ pc' = [pc EXCEPT ![t] = p]
  /\ UNCHANGED <<resp, locals>>

Logged(t, e) == log' = [log EXCEPT ![t] = Append(@, e)]

\* requests in flight: the blocked /start-recording calls, and all others
Capturing == {u \in Threads : req[u] = "start"}
Serving == {u \in Threads : req[u] \notin {"none", "start"}}

\* the first free worker picks up a request of route r, unless as many
\* requests of its kind are in flight as the clients send at the same time
Accept(t, r) ==
  /\ pc[t] = "idle"
  /\ \A i, j \in 1..Len(Workers) : (Workers[j] = t /\ i < j) => pc[Workers[i]] # "idle"
  /\ IF r = "start" THEN Cardinality(Capturing) < captures
                    ELSE Cardinality(Serving) < operators
  /\ req' = [req EXCEPT ![t] = r]

\* return jsonify(...): the response is sent and the worker is free again
Return(t) ==
  /\ pc[t] = "ret"
  /\ pc' = [pc EXCEPT ![t] = "idle"]
  /\ req' = [req EXCEPT ![t] = "none"]
  /\ log' = [log EXCEPT ![t] = <<>>]
  /\ resp' = [resp EXCEPT ![t] = NoResp]
  /\ stopped' = [stopped EXCEPT ![t] = -1]
  /\ before' = [before EXCEPT ![t] = <<NoSession, None>>]
  /\ UNCHANGED <<globals, env, locals, lastSuccess>>

\* stop requests that are accepted but have not reached uuid4() yet
PendingIds == Cardinality({u \in Threads : pc[u] \in {"s_write", "p_validate", "p_session"}})

\* ------------------------------------------------------- /stop-recording
\* line 367: is_recording = False
StopSetFlag(t) ==
  /\ Accept(t, "stop")
  /\ nextId + PendingIds <= MaxSessions
  /\ is_recording' = FALSE
  /\ stopped' = [u \in Threads |->
                   IF is_recording /\ pc[u] \in {"r_check", "r_read"} /\ stopped[u] = -1
                   THEN 0 ELSE stopped[u]]
  /\ before' = [before EXCEPT ![t] = <<current_session_id, current_english_text>>]
  /\ Goto(t, "s_write")
  /\ UNCHANGED <<current_session_id, current_english_text, audio_frames, env,
                 log, lastSuccess>>

\* lines 369-380: the WAV is written from the joined buffer; an I/O error
\* goes to the handler's except (lines 386-388)
StopWriteWav(t) ==
  /\ pc[t] = "s_write"
  /\ \E ok \in BOOLEAN :
       IF ok
       THEN /\ wavFile' = audio_frames
            /\ Logged(t, Ev("wav", "ok", None))
            /\ Goto(t, "p_validate")
       ELSE /\ Logged(t, Ev("wav", "raise", None))
            /\ Respond(t, ErrorResp("Error: exc"))
            /\ UNCHANGED wavFile
  /\ UNCHANGED <<globals, nextId, nRec, operators, captures, req, lastSuccess, stopped, before>>

\* ------------------------------------------------------- process_audio
\* lines 285-287 with validate_wav_file (108-118): wave.Error gives False,
\* any other exception reaches process_audio's except (316-318)
ProcValidate(t) ==
  /\ pc[t] = "p_validate"
  /\ \E r \in {"valid", "invalid", "raise"} :
       /\ Logged(t, Ev("validate", r, None))
       /\ CASE r = "valid" -> Goto(t, "p_session")
            [] r = "invalid" -> Respond(t, ErrorResp("Invalid WAV file"))
            [] OTHER -> Respond(t, ErrorResp("Error: exc"))
  /\ UNCHANGED <<globals, env, req, lastSuccess, stopped, before>>

\* lines 289-292: session_id = str(uuid.uuid4()); current_session_id = session_id
ProcNewSession(t) ==
  /\ pc[t] = "p_session"
  /\ session_id' = [session_id EXCEPT ![t] = nextId]
  /\ current_session_id' = nextId
  /\ nextId' = nextId + 1
  /\ Logged(t, Ev("uuid4", "ok", Str(<<nextId>>)))
  /\ pc' = [pc EXCEPT ![t] = "p_upload"]
  /\ UNCHANGED <<current_english_text, is_recording, audio_frames, wavFile, nRec,
                 operators, captures, req, source_text, english_text, rec, nread, resp,
                 lastSuccess, stopped, before>>

\* a pipeline that does not test upload_to_s3's result
ProcUpload_ignoresFailure(t) ==
  /\ pc[t] = "p_upload"
  /\ \E ok \in BOOLEAN :
       /\ Logged(t, Ev("upload", IF ok THEN "ok" ELSE "fail", None))
       /\ Goto(t, "t_submit")
  /\ UNCHANGED <<globals, env, req, lastSuccess, stopped, before>>

\* a pipeline that uploads again after a failed upload
ProcUpload_retries(t) ==
  /\ pc[t] = "p_upload"
  /\ \E ok \in BOOLEAN :
       IF ok
       THEN /\ Logged(t, Ev("upload", "ok", None))
            /\ Goto(t, "t_submit")
       ELSE /\ Logged(t, Ev("upload", "fail", None))
            /\ Goto(t, "p_upload")
  /\ UNCHANGED <<globals, env, req, lastSuccess, stopped, before>>

\* lines 294-296 with upload_to_s3 (120-130): any exception gives False
ProcUpload(t) ==
  /\ pc[t] = "p_upload"
  /\ \E ok \in BOOLEAN :
       IF ok
       THEN /\ Logged(t, Ev("upload", "ok", None))
            /\ Goto(t, "t_submit")
       ELSE /\ Logged(t, Ev("upload", "fail", None))
            /\ Respond(t, ErrorResp("Failed to upload to S3"))
  /\ UNCHANGED <<globals, env, req, lastSuccess, stopped, before>>

\* a check that only rejects a blank string and lets None through
TranscriptionFailed_blankOnly(v) == (~v.none) /\ ~Truthy(Str(Strip(v.s)))

\* line 299: not source_text or not source_text.strip()
TranscriptionFailed(v) == (~Truthy(v)) \/ ~Truthy(Str(Strip(v.s)))

\* lines 298-301: source_text = transcribe_audio(...) and the check on it
TranscribeReturn(t, v) ==
  IF TranscriptionFailed(v)
  THEN Respond(t, ErrorResp("Transcription failed"))
  ELSE /\ pc' = [pc EXCEPT ![t] = "p_correct"]
       /\ source_text' = [source_text EXCEPT ![t] = v]
       /\ UNCHANGED <<resp, session_id, english_text, rec, nread>>

\* a pipeline that names the job after the global session id
JobName_currentSession(t) == current_session_id

\* line 298 passes the local session_id as job_name
JobName(t) == session_id[t]

\* lines 135-141: start_transcription_job; an exception gives None (174-176)
TranscribeSubmit(t) ==
  /\ pc[t] = "t_submit"
  /\ \E ok \in BOOLEAN :
       IF ok
       THEN /\ Logged(t, Ev("submit", "ok", Str(<<JobName(t)>>)))
            /\ Goto(t, "t_poll")
       ELSE /\ Logged(t, Ev("submit", "raise", Str(<<JobName(t)>>)))
            /\ TranscribeReturn(t, None)
  /\ UNCHANGED <<globals, env, req, lastSuccess, stopped, before>>

Polls(t) == Cardinality({i \in 1..Len(log[t]) : log[t][i].op = "poll"})

\* a poll loop whose FAILED branch logs the reason and forgets to return
PollOutcome_pollsAfterFailed(status) ==
  CASE status = "COMPLETED" -> "fetch"
    [] status = "raise" -> "none"
    [] OTHER -> "sleep"

\* lines 148, 167, 172, 174: what one poll's answer makes the loop do
PollOutcome(status) ==
  CASE status = "COMPLETED" -> "fetch"
    [] status = "FAILED" -> "none"
    [] status = "raise" -> "none"
    [] OTHER -> "sleep"

\* a poll loop with a cap: it gives up at the first non-terminal answer
TranscribePoll_givesUp(t) ==
  /\ pc[t] = "t_poll"
  /\ \E status \in JobStatuses \cup {"raise"} :
       /\ Logged(t, Ev("poll", status, None))
       /\ CASE PollOutcome(status) = "fetch" -> Goto(t, "t_fetch")
            [] OTHER -> TranscribeReturn(t, None)
  /\ UNCHANGED <<globals, env, req, lastSuccess, stopped, before>>

\* lines 143-147, 167-172: one get_transcription_job; COMPLETED goes on to the
\* transcript fetch, FAILED returns None, anything else sleeps and polls again.
\* The service answers with a non-terminal status at most MaxPolls times.
TranscribePoll(t) ==
  /\ pc[t] = "t_poll"
  /\ \E status \in JobStatuses \cup {"raise"} :
       /\ (status \in JobStatuses \ TerminalStatuses) => Polls(t) < MaxPolls
       /\ Logged(t, Ev("poll", status, None))
       /\ CASE PollOutcome(status) = "fetch" -> Goto(t, "t_fetch")
            [] PollOutcome(status) = "none" -> TranscribeReturn(t, None)
            [] OTHER -> Goto(t, "t_poll")
  /\ UNCHANGED <<globals, env, req, lastSuccess, stopped, before>>

\* the transcript payloads: data["results"]["transcripts"] as a list of strings
Payloads == {<<>>} \cup {<<x>> : x \in Transcripts}

\* lines 155-165: the first transcript if it is non-empty, else None
ExtractTranscript(d) ==
  IF d # <<>> THEN (IF Truthy(Str(d[1])) THEN Str(d[1]) ELSE None) ELSE None

FetchKind(d) == IF d = <<>> THEN "missing" ELSE IF d[1] = <<>> THEN "empty" ELSE "text"

\* a fetch whose exception no except clause catches: the server answers 500
TranscribeFetch_raiseEscapes(t) ==
  /\ pc[t] = "t_fetch"
  /\ \/ /\ Logged(t, Ev("fetch", "raise", None))
        /\ Respond(t, [NoResp EXCEPT !.status = "500"])
     \/ \E d \in Payloads :
          /\ Logged(t, Ev("fetch", FetchKind(d), ExtractTranscript(d)))
          /\ TranscribeReturn(t, ExtractTranscript(d))
  /\ UNCHANGED <<globals, env, req, lastSuccess, stopped, before>>

\* lines 148-165: urlopen + json.loads may raise (174-176)
TranscribeFetch(t) ==
  /\ pc[t] = "t_fetch"
  /\ \/ /\ Logged(t, Ev("fetch", "raise", None))
        /\ TranscribeReturn(t, None)
     \/ \E d \in Payloads :
          /\ Logged(t, Ev("fetch", FetchKind(d), ExtractTranscript(d)))
          /\ TranscribeReturn(t, ExtractTranscript(d))
  /\ UNCHANGED <<globals, env, req, lastSuccess, stopped, before>>

NoResponseSentinel == Str(<<"Error:", "No valid translation received.">>)

\* line 303 with correct_and_translate (178-210): reading the ontology or the
\* model call may raise, the response may carry no text, else text.strip()
ProcCorrect(t) ==
  /\ pc[t] = "p_correct"
  /\ \E e \in {Ev("ontology", "raise", ErrorStr("exc")),
               Ev("model", "raise", ErrorStr("exc")),
               Ev("model", "noresp", NoResponseSentinel)}
              \cup {Ev("model", "ok", Str(Strip(x))) : x \in ModelTexts} :
       /\ Logged(t, e)
       /\ english_text' = [english_text EXCEPT ![t] = e.arg]
  /\ pc' = [pc EXCEPT ![t] = "p_store"]
  /\ UNCHANGED <<globals, env, req, session_id, source_text, rec, nread, resp,
                 lastSuccess, stopped, before>>

\* a pipeline that assigns current_english_text before it tests english_text
ProcStore_storesBeforeCheck(t) ==
  /\ pc[t] = "p_store"
  /\ current_english_text' = english_text[t]
  /\ IF ~Truthy(english_text[t])
     THEN /\ Respond(t, ErrorResp("Translation to English failed"))
          /\ UNCHANGED lastSuccess
     ELSE /\ lastSuccess' = english_text[t]
          /\ Respond(t, [NoResp EXCEPT !.status = "success",
                                       !.source_text = source_text[t],
                                       !.english_text = english_text[t]])
  /\ UNCHANGED <<current_session_id, is_recording, audio_frames, env, req, log,
                 stopped, before>>

\* line 304: not english_text
EnglishFailed(v) == ~Truthy(v)

\* a pipeline that stores its text only while the session is still its own
ProcStore_ownSessionOnly(t) ==
  /\ pc[t] = "p_store"
  /\ IF EnglishFailed(english_text[t])
     THEN /\ Respond(t, ErrorResp("Translation to English failed"))
          /\ UNCHANGED <<current_english_text, lastSuccess>>
     ELSE /\ current_english_text' = IF current_session_id = session_id[t]
                                     THEN english_text[t] ELSE current_english_text
          /\ lastSuccess' = english_text[t]
          /\ Respond(t, [NoResp EXCEPT !.status = "success",
                                       !.source_text = source_text[t],
                                       !.english_text = english_text[t]])
  /\ UNCHANGED <<current_session_id, is_recording, audio_frames, env, req, log,
                 stopped, before>>

\* lines 304-314: the check, current_english_text = english_text, the result
ProcStore(t) ==
  /\ pc[t] = "p_store"
  /\ IF EnglishFailed(english_text[t])
     THEN /\ Respond(t, ErrorResp("Translation to English failed"))
          /\ UNCHANGED <<current_english_text, lastSuccess>>
     ELSE /\ current_english_text' = english_text[t]
          /\ lastSuccess' = english_text[t]
          /\ Respond(t, [NoResp EXCEPT !.status = "success",
                                       !.source_text = source_text[t],
                                       !.english_text = english_text[t]])
  /\ UNCHANGED <<current_session_id, is_recording, audio_frames, env, req, log,
                 stopped, before>>

\* ------------------------------------------------- /translate-to-language
TranslationFailedSentinel == Str(<<"Error:", "Translation failed.">>)

\* a handler that only tests target_language
TranslateCheck_noTextGuard(t) ==
  /\ Accept(t, "translate")
  /\ \E target \in TargetLanguages :
       IF target = ""
       THEN Respond(t, ErrorResp("No target language specified"))
       ELSE Goto(t, "x_call")
  /\ UNCHANGED <<globals, env, log, lastSuccess, stopped, before>>

\* lines 393-400: the two guards on current_english_text and target_language
TranslateCheck(t) ==
  /\ Accept(t, "translate")
  /\ \E target \in TargetLanguages :
       IF ~Truthy(current_english_text)
       THEN Respond(t, ErrorResp("No English text available for translation"))
       ELSE IF target = ""
       THEN Respond(t, ErrorResp("No target language specified"))
       ELSE Goto(t, "x_call")
  /\ UNCHANGED <<globals, env, log, lastSuccess, stopped, before>>

\* a handler that keeps the translation in the session as the current text
TranslateCall_cachesTranslation(t) ==
  /\ pc[t] = "x_call"
  /\ \E e \in {Ev("translate", "raise", ErrorStr("exc")),
               Ev("translate", "non200", TranslationFailedSentinel)}
              \cup {Ev("translate", "ok", Str(x)) : x \in Translations} :
       /\ log' = [log EXCEPT ![t] = <<Ev("english", "arg", current_english_text), e>>]
       /\ current_english_text' = e.arg
       /\ IF Truthy(e.arg)
          THEN Respond(t, [NoResp EXCEPT !.status = "success", !.translated_text = e.arg])
          ELSE Respond(t, ErrorResp("Translation failed"))
  /\ UNCHANGED <<current_session_id, is_recording, audio_frames, env, req,
                 lastSuccess, stopped, before>>

\* lines 402-411 with translate_to_target_language (212-245): HTTP 200 gives
\* the translation, any other status or an exception an "Error: ..." string
TranslateCall(t) ==
  /\ pc[t] = "x_call"
  /\ \E e \in {Ev("translate", "raise", ErrorStr("exc")),
               Ev("translate", "non200", TranslationFailedSentinel)}
              \cup {Ev("translate", "ok", Str(x)) : x \in Translations} :
       /\ log' = [log EXCEPT ![t] = <<Ev("english", "arg", current_english_text), e>>]
       /\ IF Truthy(e.arg)
          THEN Respond(t, [NoResp EXCEPT !.status = "success", !.translated_text = e.arg])
          ELSE Respond(t, ErrorResp("Translation failed"))
  /\ UNCHANGED <<globals, env, req, lastSuccess, stopped, before>>

\* ------------------------------------------------------- /text-to-speech
\* lines 420-425: text and target_language are both required
TtsCheck(t) ==
  /\ Accept(t, "tts")
  /\ \E text \in SpeechTexts, target \in TargetLanguages :
       IF text = <<>> \/ target = ""
       THEN Respond(t, ErrorResp("Text and target language are required"))
       ELSE Goto(t, "y_call")
  /\ UNCHANGED <<globals, env, log, lastSuccess, stopped, before>>

\* lines 427-435 with text_to_speech (247-278): a URL, or None on a failed or
\* cancelled synthesis and on any exception
TtsCall(t) ==
  /\ pc[t] = "y_call"
  /\ \E ok \in BOOLEAN :
       IF ok
       THEN /\ Logged(t, Ev("synth", "ok", None))
            /\ Respond(t, [NoResp EXCEPT !.status = "success",
                                         !.audio_url = "/static/audio/output_uuid.wav"])
       ELSE /\ Logged(t, Ev("synth", "fail", None))
            /\ Respond(t, ErrorResp("Text-to-speech conversion failed"))
  /\ UNCHANGED <<globals, env, req, lastSuccess, stopped, before>>

\* ------------------------------------------------------- /start-recording
\* line 332: is_recording = True
StartSetFlag(t) ==
  /\ Accept(t, "start")
  /\ nRec < MaxRecordings + (IF captures > 1 THEN captures - 1 ELSE 0)
  /\ nRec' = nRec + 1
  /\ is_recording' = TRUE
  /\ stopped' = [u \in Threads |-> -1]
  /\ rec' = [rec EXCEPT ![t] = nRec + 1]
  /\ pc' = [pc EXCEPT ![t] = "r_clear"]
  /\ UNCHANGED <<resp, session_id, source_text, english_text, nread>>
  /\ UNCHANGED <<current_session_id, current_english_text, audio_frames, wavFile,
                 nextId, operators, captures, log, lastSuccess, before>>

\* a start call that leaves the buffer alone while another capture is running
StartClear_keepsOthers(t) ==
  /\ pc[t] = "r_clear"
  /\ audio_frames' = IF \E u \in Threads \ {t} : pc[u] \in {"r_check", "r_read"}
                     THEN audio_frames ELSE <<>>
  /\ Goto(t, "r_open")
  /\ UNCHANGED <<current_session_id, current_english_text, is_recording, env,
                 req, log, lastSuccess, stopped, before>>

\* line 333: audio_frames = []
StartClear(t) ==
  /\ pc[t] = "r_clear"
  /\ audio_frames' = <<>>
  /\ Goto(t, "r_open")
  /\ UNCHANGED <<current_session_id, current_english_text, is_recording, env,
                 req, log, lastSuccess, stopped, before>>

\* lines 335-344: PyAudio() and audio.open(); a device error goes to the
\* handler's except (358-360)
StartOpen(t) ==
  /\ pc[t] = "r_open"
  /\ \E ok \in BOOLEAN :
       IF ok
       THEN /\ Goto(t, "r_check")
            /\ UNCHANGED log
       ELSE /\ Logged(t, Ev("open", "raise", None))
            /\ Respond(t, ErrorResp("Error: exc"))
  /\ UNCHANGED <<globals, env, req, lastSuccess, stopped, before>>

\* a capture loop that never looks at the flag
KeepRecording_ignoresFlag(flag) == TRUE

\* line 346: the loop condition
KeepRecording(flag) == flag

\* line 346: while is_recording
StartCheck(t) ==
  /\ pc[t] = "r_check"
  /\ Goto(t, IF KeepRecording(is_recording) THEN "r_read" ELSE "r_close")
  /\ UNCHANGED <<globals, env, req, log, lastSuccess, stopped, before>>

\* lines 347-348: data = stream.read(CHUNK); audio_frames.append(data).
\* The microphone delivers at most MaxFrames chunks while the flag stays true.
StartRead(t) ==
  /\ pc[t] = "r_read"
  /\ is_recording => Len(audio_frames) < MaxFrames
  /\ audio_frames' = Append(audio_frames, <<rec[t], nread[t] + 1>>)
  /\ nread' = [nread EXCEPT ![t] = @ + 1]
  /\ stopped' = [stopped EXCEPT ![t] = IF @ >= 0 THEN @ + 1 ELSE @]
  /\ pc' = [pc EXCEPT ![t] = "r_check"]
  /\ UNCHANGED <<current_session_id, current_english_text, is_recording, env,
                 req, session_id, source_text, english_text, rec, log, resp,
                 lastSuccess, before>>

\* lines 350-356: the stream is closed and the call returns success
StartClose(t) ==
  /\ pc[t] = "r_close"
  /\ Respond(t, [NoResp EXCEPT !.status = "success",
                               !.message = "Recording stopped successfully."])
  /\ UNCHANGED <<globals, env, req, log, lastSuccess, stopped, before>>

\* ------------------------------------------------------- specification
Next ==
  \E t \in Threads :
    \/ StartSetFlag(t) \/ StartClear(t) \/ StartOpen(t)
    \/ StartCheck(t) \/ StartRead(t) \/ StartClose(t)
    \/ StopSetFlag(t) \/ StopWriteWav(t)
    \/ ProcValidate(t) \/ ProcNewSession(t) \/ ProcUpload(t)
    \/ TranscribeSubmit(t) \/ TranscribePoll(t) \/ TranscribeFetch(t)
    \/ ProcCorrect(t) \/ ProcStore(t)
    \/ TranslateCheck(t) \/ TranslateCall(t)
    \/ TtsCheck(t) \/ TtsCall(t)
    \/ Return(t)

\* one operator: requests are served one at a time next to the capture loop
Spec == Init /\ [][Next]_vars

\* the steps of every route but /start-recording
NextServe ==
  \E t \in Threads :
    \/ StopSetFlag(t) \/ StopWriteWav(t)
    \/ ProcValidate(t) \/ ProcNewSession(t) \/ ProcUpload(t)
    \/ TranscribeSubmit(t) \/ TranscribePoll(t) \/ TranscribeFetch(t)
    \/ ProcCorrect(t) \/ ProcStore(t)
    \/ TranslateCheck(t) \/ TranslateCall(t)
    \/ TtsCheck(t) \/ TtsCall(t)
    \/ Return(t)

\* a step of a request that has been accepted and has not built its result
Running(t) ==
  \/ StopWriteWav(t)
  \/ ProcValidate(t) \/ ProcNewSession(t) \/ ProcUpload(t)
  \/ TranscribeSubmit(t) \/ TranscribePoll(t) \/ TranscribeFetch(t)
  \/ ProcCorrect(t) \/ ProcStore(t)
  \/ TranslateCall(t) \/ TtsCall(t)

\* requests served one at a time; the worker of an accepted request keeps
\* running and every external call comes back, with a result or an exception
ServeSpec ==
  InitServe /\ [][NextServe]_vars /\ \A t \in Threads : WF_vars(Running(t))

\* the steps that read or write is_recording and audio_frames: those of
\* /start-recording, and of /stop-recording up to the call of process_audio
NextStarts ==
  \E t \in Threads :
    \/ StartSetFlag(t) \/ StartClear(t) \/ StartOpen(t)
    \/ StartCheck(t) \/ StartRead(t) \/ StartClose(t)
    \/ StopSetFlag(t) \/ StopWriteWav(t)
    \/ Return(t)

\* two operators whose /start-recording calls overlap
StartsSpec == InitStarts /\ [][NextStarts]_vars

\* the steps of /stop-recording requests alone
NextStops ==
  \E t \in Threads :
    \/ StopSetFlag(t) \/ StopWriteWav(t)
    \/ ProcValidate(t) \/ ProcNewSession(t) \/ ProcUpload(t)
    \/ TranscribeSubmit(t) \/ TranscribePoll(t) \/ TranscribeFetch(t)
    \/ ProcCorrect(t) \/ ProcStore(t)
    \/ Return(t)

\* two operators whose /stop-recording requests overlap
StopsSpec == InitStops /\ [][NextStops]_vars

\* the scheduler keeps running a worker that is inside the capture loop
FairSpec == Spec /\ \A t \in Threads : WF_vars(StartCheck(t) \/ StartRead(t) \/ StartClose(t))

\* ------------------------------------------------------------------ claims
Has(t, op) == \E i \in 1..Len(log[t]) : log[t][i].op = op
HasEv(t, op, res) == \E i \in 1..Len(log[t]) : log[t][i].op = op /\ log[t][i].res = res

\* C1: a request whose upload_to_s3 returned False never submits or polls a
\* transcription job, never fetches a transcript, never reads the ontology or
\* calls the model, and ends with status "error", "Failed to upload to S3".
C1_UploadFailureStopsPipeline ==
  \A t \in Threads :
    HasEv(t, "upload", "fail") =>
      /\ ~Has(t, "submit") /\ ~Has(t, "poll") /\ ~Has(t, "fetch")
      /\ ~Has(t, "ontology") /\ ~Has(t, "model")
      /\ pc[t] = "ret"
      /\ resp[t] = ErrorResp("Failed to upload to S3")

C1_Witness ==
  \E t \in Threads :
    /\ HasEv(t, "upload", "fail") /\ pc[t] = "ret"
    /\ resp[t].message = "Failed to upload to S3"

\* C2: in a request's call log no poll follows a poll that observed COMPLETED
\* or FAILED, and every poll that observed a non-terminal status is followed
\* by another poll (or the worker is still in the poll loop).
C2_PollsStopExactlyAtTerminal ==
  \A t \in Threads : \A i \in 1..Len(log[t]) :
    log[t][i].op = "poll" =>
      /\ log[t][i].res \in TerminalStatuses =>
            \A j \in (i + 1)..Len(log[t]) : log[t][j].op # "poll"
      /\ log[t][i].res \in JobStatuses \ TerminalStatuses =>
            IF i = Len(log[t]) THEN pc[t] = "t_poll" ELSE log[t][i + 1].op = "poll"

C2_Witness ==
  \E t \in Threads : \E i \in 1..Len(log[t]) :
    /\ i < Len(log[t])
    /\ log[t][i].op = "poll" /\ log[t][i].res = "IN_PROGRESS"
    /\ log[t][i + 1].op = "poll" /\ log[t][i + 1].res \in TerminalStatuses
    /\ pc[t] = "ret"

\* worker t takes the first step of a /translate-to-language request
TranslateArrives(t) == pc[t] = "idle" /\ req'[t] = "translate"

\* C3: once a /stop-recording request has returned "success" with english_text
\* T, and until the next one does, every /translate-to-language request that
\* names a target language calls the translation API with exactly T, whatever
\* requests (failed stops included) came in between.
C3_TranslateUsesLatestSuccess ==
  [][\A t \in Threads :
       /\ (TranslateArrives(t) /\ Truthy(lastSuccess)) =>
             \/ pc'[t] = "x_call"
             \/ resp'[t] = ErrorResp("No target language specified")
       /\ (pc[t] = "x_call" /\ pc'[t] = "ret") =>
             /\ Truthy(lastSuccess)
             /\ log'[t][1] = Ev("english", "arg", lastSuccess)]_vars

\* a translation of the latest successful text is served once two sessions
\* have been created
C3_Witness ==
  \E t \in Threads :
    /\ req[t] = "translate" /\ pc[t] = "ret" /\ Len(log[t]) = 2
    /\ log[t][1].arg = lastSuccess
    /\ lastSuccess = Str(<<"soil">>)
    /\ nextId = 3

\* C4: while no /stop-recording request has returned "success", a
\* /translate-to-language request, with or without a target language, gets
\* "No English text available for translation" and calls no translation API.
C4_NoTextNoTranslation ==
  [][\A t \in Threads :
       (TranslateArrives(t) /\ lastSuccess = None) =>
         /\ pc'[t] = "ret"
         /\ resp'[t] = ErrorResp("No English text available for translation")
         /\ log'[t] = <<>>]_vars

\* the refusal is served after a /stop-recording request has already failed
C4_Witness ==
  \E t \in Threads :
    /\ req[t] = "translate" /\ pc[t] = "ret" /\ lastSuccess = None
    /\ resp[t].message = "No English text available for translation"
    /\ nextId > 1

\* the correction-translation step of worker t's request failed: the ontology
\* read or the model call raised, or the model gave no usable response
CorrectionFailed(t) ==
  \E i \in 1..Len(log[t]) :
    /\ log[t][i].op \in {"ontology", "model"}
    /\ log[t][i].res \in {"raise", "noresp"}

\* C5: when the correction-translation step has failed, the /stop-recording
\* result has status "error" and current_english_text does not hold the
\* failure's "Error: ..." string.
C5_CorrectionFailureIsError ==
  \A t \in Threads :
    (req[t] = "stop" /\ pc[t] = "ret" /\ CorrectionFailed(t)) =>
      /\ resp[t].status = "error"
      /\ current_english_text # log[t][Len(log[t])].arg

\* the secondary translation of worker t's request failed
SecondaryFailed(t) ==
  \E i \in 1..Len(log[t]) :
    log[t][i].op = "translate" /\ log[t][i].res \in {"raise", "non200"}

\* C6: when translate_to_target_language has failed (non-200 or exception),
\* the /translate-to-language result has status "error" and no translated_text.
C6_SecondaryFailureIsError ==
  \A t \in Threads :
    (req[t] = "translate" /\ pc[t] = "ret" /\ SecondaryFailed(t)) =>
      /\ resp[t].status = "error"
      /\ resp[t].translated_text = None

\* worker t's pipeline failed in the upload, transcription or correction step
PipelineStepFailed(t) ==
  \/ HasEv(t, "upload", "fail")
  \/ HasEv(t, "submit", "raise")
  \/ HasEv(t, "poll", "FAILED") \/ HasEv(t, "poll", "raise")
  \/ (Has(t, "fetch") /\ ~Has(t, "model") /\ ~Has(t, "ontology"))
  \/ CorrectionFailed(t)
  \/ \E i \in 1..Len(log[t]) : log[t][i].op = "model" /\ ~Truthy(log[t][i].arg)

\* C7: a /stop-recording request that failed in the upload, transcription or
\* correction step returns status "error" and leaves the session record
\* (current_session_id, current_english_text) as it was when the request began.
C7_FailureLeavesSessionRecord ==
  \A t \in Threads :
    (req[t] = "stop" /\ pc[t] = "ret" /\ PipelineStepFailed(t)) =>
      /\ resp[t].status = "error"
      /\ <<current_session_id, current_english_text>> = before[t]

\* the transcription of worker t's request ended COMPLETED with an empty first
\* transcript or without transcripts, or ended FAILED
EmptyOrFailedJob(t) ==
  \/ HasEv(t, "fetch", "empty") \/ HasEv(t, "fetch", "missing")
  \/ HasEv(t, "poll", "FAILED")

\* C8: after such a job transcribe_audio has returned None, the request is at
\* its return with status "error", "Transcription failed", it has neither read
\* the ontology nor called the model, and current_english_text is what it was
\* when the request began.
C8_EmptyOrFailedTranscription ==
  \A t \in Threads :
    (req[t] = "stop" /\ EmptyOrFailedJob(t)) =>
      /\ \A i \in 1..Len(log[t]) : log[t][i].op = "fetch" => log[t][i].arg = None
      /\ pc[t] = "ret"
      /\ resp[t] = ErrorResp("Transcription failed")
      /\ ~Has(t, "ontology") /\ ~Has(t, "model")
      /\ current_english_text = before[t][2]

\* an empty first transcript is refused while the session holds an earlier text
C8_Witness ==
  \E t \in Threads :
    /\ req[t] = "stop" /\ pc[t] = "ret" /\ HasEv(t, "fetch", "empty")
    /\ resp[t].message = "Transcription failed"
    /\ Truthy(current_english_text)

\* C9: no step of a /translate-to-language or /text-to-speech request changes
\* current_session_id, current_english_text, is_recording or audio_frames.
C9_FollowUpsLeaveSession ==
  [][\A t \in Threads :
       (pc'[t] # pc[t] /\ (req[t] \in {"translate", "tts"} \/ req'[t] \in {"translate", "tts"}))
         => UNCHANGED globals]_vars

\* a translation has succeeded and the English text is still in the session
C9_Witness ==
  \E t \in Threads :
    /\ req[t] = "translate" /\ pc[t] = "ret" /\ resp[t].status = "success"
    /\ log[t][1].arg = current_english_text
    /\ Truthy(current_english_text)

\* what the capture loop of a single /start-recording call may do
CaptureLoopSafe ==
  \A t \in Threads :
    /\ stopped[t] <= 1
    /\ pc[t] = "r_close" => ~is_recording
    /\ (req[t] = "start" /\ pc[t] = "ret" /\ stopped[t] >= 0) => resp[t].status = "success"

\* one loop iteration: the flag is read once, and while it is true exactly one
\* chunk is appended before it is read again
CaptureLoopStep ==
  \A t \in Threads :
    /\ (pc[t] = "r_check" /\ pc'[t] # "r_check") =>
          pc'[t] = (IF is_recording THEN "r_read" ELSE "r_close")
    /\ (pc[t] = "r_read" /\ pc'[t] # "r_read") =>
          /\ pc'[t] = "r_check"
          /\ Len(audio_frames') = Len(audio_frames) + 1

C11_FramesConsumedOnce ==
  [][\A t \in Threads :
       (pc[t] = "s_write" /\ pc'[t] = "p_validate") =>
         \A i \in 1..Len(audio_frames) : \A j \in 1..Len(wavFile) :
           audio_frames[i] # wavFile[j]]_vars

\* C12: an upload is started only by a stop request that ends a capture begun
\* by an earlier start request: as long as no /start-recording request has
\* been received, so that every /stop-recording request so far arrived in
\* IDLE with no capture in progress, no request uploads, submits or polls a
\* transcription job, fetches a transcript, reads the ontology or calls the
\* model.
C12_PipelineOnlyAfterCapture ==
  nRec = 0 =>
    \A t \in Threads :
      \A op \in {"upload", "submit", "poll", "fetch", "ontology", "model"} : ~Has(t, op)

\* C13: whatever upload, job submission, status poll, transcript fetch, model
\* call, translation call and synthesis call answer (a result, a failure or
\* an exception), every /stop-recording, /translate-to-language and
\* /text-to-speech request returns, and what it returns is a JSON result
\* whose status is "success" or "error".
FailureResults == {"raise", "fail", "FAILED", "missing", "empty", "noresp"}

Failed(t) == \E i \in 1..Len(log[t]) : log[t][i].res \in FailureResults

C13_NoFailureEscapes ==
  /\ [](\A t \in Threads : pc[t] = "ret" => resp[t].status \in {"success", "error"})
  /\ \A t \in Threads :
       (req[t] \in {"stop", "translate", "tts"})
         ~> (pc[t] = "ret" /\ resp[t].status \in {"success", "error"})

\* a request whose transcript fetch raised has returned a JSON error
C13_Witness ==
  \E t \in Threads :
    /\ req[t] = "stop" /\ Failed(t) /\ HasEv(t, "fetch", "raise")
    /\ pc[t] = "ret" /\ resp[t].status = "error"

\* C14: transcribe_audio is inside its poll loop exactly while the job was
\* submitted and every poll so far observed a non-terminal status, however
\* many polls that is: only COMPLETED, FAILED or an exception ends the loop.
\* When the service does answer with a terminal status or an exception, the
\* call and the enclosing /stop-recording request return.
WaitingForJob(t) ==
  /\ HasEv(t, "submit", "ok")
  /\ \A i \in 1..Len(log[t]) :
       log[t][i].op = "poll" => log[t][i].res \in JobStatuses \ TerminalStatuses

C14_TranscribeReturnsIffTerminal ==
  /\ [](\A t \in Threads : Has(t, "submit") => (pc[t] = "t_poll" <=> WaitingForJob(t)))
  /\ \A t \in Threads : (pc[t] \in {"t_submit", "t_poll", "t_fetch"}) ~> (pc[t] = "ret")

\* a request that slept through a non-terminal answer and returned once the
\* job had failed
C14_Witness ==
  \E t \in Threads :
    /\ HasEv(t, "poll", "IN_PROGRESS") /\ HasEv(t, "poll", "FAILED")
    /\ pc[t] = "ret" /\ resp[t].message = "Transcription failed"

\* C15: nothing guards the session record against a second pipeline: every
\* process_audio run makes its new id the current session id, and every run
\* that succeeds makes its text the current English text, whichever request
\* the current session id belongs to by then.  Two overlapping requests can
\* therefore both return with the id of one and the text of the other in the
\* record (C15_Witness).
CreatedSession(t, id) ==
  \E i \in 1..Len(log[t]) : log[t][i] = Ev("uuid4", "ok", Str(<<id>>))

C15_SessionRecordUnguarded ==
  [][\A t \in Threads :
       /\ (pc[t] = "p_session" /\ pc'[t] = "p_upload")
            => current_session_id' = session_id'[t]
       /\ (pc[t] = "p_store" /\ resp'[t].status = "success")
            => current_english_text' = resp'[t].english_text]_vars

\* both requests have returned success; the record holds the session id that
\* b created and the text that a produced, which is not b's text
C15_Witness ==
  \E a, b \in Threads :
    /\ a # b
    /\ \A t \in {a, b} : req[t] = "stop" /\ pc[t] = "ret" /\ resp[t].status = "success"
    /\ CreatedSession(b, current_session_id)
    /\ ~CreatedSession(a, current_session_id)
    /\ current_english_text = resp[a].english_text
    /\ current_english_text # resp[b].english_text

\* C16: nothing guards the frame buffer against a second capture: every start
\* call empties audio_frames, whatever another capture has put there, every
\* capture loop appends its chunk to the one list, and a stop request joins
\* the list as it is.  With two overlapping start calls the WAV can therefore
\* hold a sequence that is not the chunk sequence of one recording
\* (C16_Witness).
C16_FrameBufferUnguarded ==
  [][\A t \in Threads :
       /\ (pc[t] = "r_clear" /\ pc'[t] = "r_open") => audio_frames' = <<>>
       /\ (pc[t] = "r_read" /\ pc'[t] = "r_check")
            => audio_frames' = Append(audio_frames, <<rec[t], nread'[t]>>)
       /\ (pc[t] = "s_write" /\ pc'[t] = "p_validate") => wavFile' = audio_frames]_vars

\* chunks 1..n of recording r, in order
ChunksOfOne(w) == \E r \in 1..nRec : \A k \in 1..Len(w) : w[k] = <<r, k>>

\* a stop request has joined a buffer that holds chunks of two recordings and
\* lacks a chunk the first one captured before the second start emptied it
C16_Witness ==
  \E s \in Threads :
    /\ req[s] = "stop" /\ HasEv(s, "wav", "ok")
    /\ ~ChunksOfOne(wavFile)
    /\ \E i, j \in 1..Len(wavFile) : wavFile[i][1] # wavFile[j][1]
    /\ \E i \in 1..Len(wavFile) :
         /\ wavFile[i][2] > 1
         /\ \A j \in 1..Len(wavFile) : wavFile[j] # <<wavFile[i][1], 1>>

\* C17: no two transcription jobs are submitted under one job name.  Each
\* request submits at most once, under the session id that its own uuid4()
\* call returned; the ids uuid4() has returned are all different (each is
\* below nextId and no two requests in flight hold the same one), so the name
\* of a submission differs from the name of every other submission, earlier
\* or concurrent.
Submitted(t, id) ==
  \E i \in 1..Len(log[t]) : log[t][i].op = "submit" /\ log[t][i].arg = Str(<<id>>)

C17_JobNamesUnique ==
  \A t \in Threads :
    /\ Cardinality({i \in 1..Len(log[t]) : log[t][i].op = "submit"}) <= 1
    /\ \A id \in NoSession..MaxSessions :
         /\ Submitted(t, id) => (CreatedSession(t, id) /\ id # NoSession)
         /\ CreatedSession(t, id) =>
              /\ id < nextId
              /\ \A u \in Threads \ {t} : ~CreatedSession(u, id) /\ ~Submitted(u, id)

\* two requests in flight have each submitted a job, under different names
C17_Witness ==
  \E a, b \in Threads : \E i, j \in 1..MaxSessions :
    /\ a # b /\ i # j
    /\ Submitted(a, i) /\ Submitted(b, j)

\* C18: the call log of a /stop-recording request is a prefix of: WAV write,
\* validation, uuid4, upload, job submission, polls, transcript fetch,
\* correction (ontology read and model call).  Each call is followed
\* only by the next one in this order, a poll also by another poll, and only
\* when it returned success (for a poll: COMPLETED before the fetch, a
\* non-terminal status before the next poll); so no call is made twice
\* except the poll, and none after a failure.
StepOrder == <<"wav", "validate", "uuid4", "upload", "submit", "poll", "fetch", "correct">>

StepOf(e) == IF e.op \in {"ontology", "model"} THEN "correct" ELSE e.op

Place(e) == CHOOSE k \in 1..Len(StepOrder) : StepOrder[k] = StepOf(e)

MayFollow(e, f) ==
  IF e.op = "poll"
  THEN \/ e.res = "COMPLETED" /\ f.op = "fetch"
       \/ e.res \in JobStatuses \ TerminalStatuses /\ f.op = "poll"
  ELSE /\ e.res \in {"ok", "valid", "text"}
       /\ Place(f) = Place(e) + 1

C18_StepsOnceInOrder ==
  \A t \in Threads :
    req[t] = "stop" =>
      /\ Len(log[t]) > 0 => log[t][1].op = "wav"
      /\ \A i \in 1..(Len(log[t]) - 1) : MayFollow(log[t][i], log[t][i + 1])

\* a request that went through every step, one poll repeated, and returned
C18_Witness ==
  \E t \in Threads :
    /\ req[t] = "stop" /\ pc[t] = "ret" /\ resp[t].status = "success"
    /\ HasEv(t, "poll", "IN_PROGRESS") /\ HasEv(t, "model", "ok")
    /\ Len(log[t]) = Len(StepOrder) + 1

\* C19: once a /stop-recording request has joined the buffer into the WAV
\* file, a capture loop under which the flag has been cleared appends no
\* further chunk to audio_frames.
C19_NoChunkAfterJoin ==
  [][\A t, s \in Threads :
       (req[s] = "stop" /\ HasEv(s, "wav", "ok") /\ stopped[t] >= 0)
         => ~(pc[t] = "r_read" /\ pc'[t] = "r_check" /\ Len(audio_frames') > Len(audio_frames))]_vars

\* C20: a stop request is never lost.  is_recording is cleared only by line
\* 367, so the start call of a start/stop pair leaves its loop exactly if the
\* flag is false once both handlers have written it: while the stop request
\* is in flight (it has run line 367), a start call that has run line 332 and
\* has not left its loop finds the flag false.
C20_StopNeverLost ==
  \A t, s \in Threads :
    (/\ req[s] = "stop"
     /\ req[t] = "start" /\ pc[t] \in {"r_clear", "r_open", "r_check", "r_read"})
      => ~is_recording
====
